---- MODULE Spec2Model ----
(***************************************************************************)
(* Model of vso-extension-tools: the manifest merge engine (Merger), the   *)
(* archive assembler (VsixWriter), the REST error translator (err) and the *)
(* commands of app.ts (package, publish, create and delete publisher).     *)
(***************************************************************************)
EXTENDS Integers, Sequences, FiniteSets, TLC

VARIABLES
    resp,       \* err: the value handed to the error translator
    outcome,    \* err: what the translator threw
    files,      \* Merger: the discovered manifest files, in discovery order
    reads,      \* Merger: state of the readFile/JSON.parse promise of each file
    manifests,  \* Merger: what the promise returned by merge() resolved with
    vso,        \* the service manifest accumulator (vsoManifest)
    vsix,       \* the package manifest accumulator (vsixManifest)
    pc,         \* doPackageCreate / VsixWriter: position in the packaging flow
    prepCount,  \* VsixWriter: number of prepManifests calls made on vsix
    zip,        \* VsixWriter.writeVsix: the JSZip entries, in insertion order
    outFile,    \* the file at outPath
    pathSep,    \* path.sep of the platform the tool runs on
    given,      \* VsixWriter: the package manifest as handed to the first constructor
    partials,   \* Merger: the array Q.all(manifestPromises) collects the parsed files in
    tmpDir,     \* VsixWriter.writeVsix: the directory obtained from tmp.dir
    published,  \* publishVsix: what doPublish was called with
    publisher,  \* createPublisher / deletePublisher: the call and its position
    log         \* createPublisher / deletePublisher: the messages logged, in order

vars == <<resp, outcome, files, reads, manifests, vso, vsix, pc, prepCount, zip, outFile, pathSep, given,
          partials, tmpDir, published, publisher, log>>
pkgVars == <<files, reads, manifests, vso, vsix, pc, prepCount, zip, outFile, pathSep, given,
             partials, tmpDir, published>>
pubVars == <<publisher, log>>

(***************************************************************************)
(* JavaScript values.  Every value is a record [t, v]: t is the type tag,  *)
(* v the payload (a string, a number, a sequence of values for an array,   *)
(* a function from property names to values for an object).                *)
(***************************************************************************)
Undefined == [t |-> "undef", v |-> 0]
Null == [t |-> "null", v |-> 0]
JStr(s) == [t |-> "str", v |-> s]
JNum(n) == [t |-> "num", v |-> n]
JArr(a) == [t |-> "arr", v |-> a]
JObj(o) == [t |-> "obj", v |-> o]
EmptyObj == JObj(<<>>)
TypeError == [t |-> "TypeError", v |-> 0]
SyntaxError == [t |-> "SyntaxError", v |-> 0]

isArray(x) == x.t = "arr"
isPlainObject(x) == x.t = "obj"
isObjectLike(x) == x.t \in {"arr", "obj"}

\* JavaScript truthiness of a value
Truthy(x) ==
    CASE x.t \in {"undef", "null"} -> FALSE
      [] x.t = "str" -> x.v # ""
      [] x.t = "num" -> x.v # 0
      [] OTHER -> TRUE

\* obj[key] for a value that is neither undefined nor null
Get(x, key) ==
    IF x.t = "obj" /\ key \in DOMAIN x.v THEN x.v[key] ELSE Undefined

(***************************************************************************)
(* errorHandler.err                                                        *)
(***************************************************************************)
MsgX == "{\"message\":\"X\"}"
MsgEmpty == "{\"message\":\"\"}"
FooOne == "{\"foo\":1}"
NotJson == "Service Unavailable"
Resp401 == "{\"statusCode\":401}"
Resp500 == "{\"statusCode\":500,\"body\":{\"message\":\"X\"}}"
RespNull == "null"

\* JSON.parse on the strings of the model's universe; SyntaxError = it throws
JSONparse(s) ==
    CASE s = MsgX -> JObj([message |-> JStr("X")])
      [] s = MsgEmpty -> JObj([message |-> JStr("")])
      [] s = FooOne -> JObj([foo |-> JNum(1)])
      [] s = Resp401 -> JObj([statusCode |-> JNum(401)])
      [] s = Resp500 -> JObj([statusCode |-> JNum(500),
                              body |-> JObj([message |-> JStr("X")])])
      [] s = RespNull -> Null
      [] OTHER -> SyntaxError

ExpiredMessage == JStr("Received response 401 (Not Authorized). Check that your personal access token is correct and hasn't expired.")

\* lines 15-32 of err: the body is examined, the message or the body thrown
errBody(body) ==
    LET errorBodyObj ==
            IF Truthy(body) /\ body.t = "str" THEN JSONparse(body.v) ELSE body
    IN  IF errorBodyObj = SyntaxError
        THEN body                                   \* catch: throw errorBodyObj
        ELSE IF errorBodyObj.t \in {"undef", "null"}
        THEN TypeError                              \* errorBodyObj.message
        ELSE IF Truthy(Get(errorBodyObj, "message"))
        THEN Get(errorBodyObj, "message")
        ELSE errorBodyObj

\* The value err(obj) throws (it never returns normally)
err(obj) ==
    LET errorAsObj == IF obj.t = "str" THEN JSONparse(obj.v) ELSE obj
    IN  IF errorAsObj = SyntaxError
        THEN obj                                    \* catch: throw errorAsObj
        ELSE IF errorAsObj.t \in {"undef", "null"}
        THEN TypeError                              \* errorAsObj.statusCode
        ELSE IF Get(errorAsObj, "statusCode") = JNum(401)
        THEN ExpiredMessage
        ELSE errBody(Get(errorAsObj, "body"))

StatusCodes == {Undefined, JNum(401), JNum(404), JNum(500)}
Bodies ==
    { Undefined, Null, JStr(""), JStr(MsgX), JStr(MsgEmpty), JStr(FooOne), JStr(NotJson),
      JObj([message |-> JStr("X")]), JObj([message |-> JStr("")]),
      JObj([foo |-> JNum(1)]), JObj([foo |-> JNum(1), message |-> JStr("Y")]),
      EmptyObj }

\* A response object as request hands it to the callback
Response(sc, body) ==
    JObj([k \in (IF sc = Undefined THEN {} ELSE {"statusCode"})
                \cup (IF body = Undefined THEN {} ELSE {"body"})
            |-> IF k = "statusCode" THEN sc ELSE body])

Responses ==
    { Response(sc, b) : sc \in StatusCodes, b \in Bodies }
    \cup { JStr(Resp401), JStr(Resp500), JStr(RespNull), JStr(NotJson) }

NotThrown == [t |-> "none", v |-> 0]

\* doPublish has not been called
NotPublished == [t |-> "none", v |-> 0]

InitErr ==
    /\ resp \in Responses
    /\ outcome = NotThrown
    /\ files = <<>> /\ reads = <<>> /\ manifests = "idle"
    /\ vso = Undefined /\ vsix = Undefined
    /\ pc = "idle" /\ prepCount = 0 /\ zip = <<>> /\ outFile = Undefined /\ pathSep = "/" /\ given = Undefined
    /\ partials = <<>> /\ tmpDir = "none" /\ published = NotPublished
    /\ publisher = Undefined /\ log = <<>>

ErrCall ==
    /\ outcome = NotThrown
    /\ outcome' = err(resp)
    /\ UNCHANGED <<resp, pkgVars, pubVars>>

NextErr == ErrCall

SpecErr == InitErr /\ [][NextErr]_vars

(***************************************************************************)
(* lodash 3.x helpers used by package.ts                                   *)
(***************************************************************************)
Max(a, b) == IF a >= b THEN a ELSE b

\* The customizer mergeKey hands to _.merge for "contributions" (lines
\* 194-198); custom = FALSE is _.merge without a customizer.  Undefined means
\* "no result": _.merge then merges the property itself.
\* Array.prototype.concat appends the elements of an array argument and any
\* other argument as one element.
\* the customizer with the operands of concat exchanged
CustomizerSourceFirst(custom, objectValue, sourceValue) ==
    IF custom /\ isArray(objectValue)
    THEN JArr((IF isArray(sourceValue) THEN sourceValue.v ELSE <<sourceValue>>)
              \o objectValue.v)
    ELSE Undefined

Customizer(custom, objectValue, sourceValue) ==
    IF custom /\ isArray(objectValue)
    THEN JArr(objectValue.v \o (IF isArray(sourceValue) THEN sourceValue.v
                                                       ELSE <<sourceValue>>))
    ELSE Undefined

\* _.merge(object, source, customizer): baseMerge / baseMergeDeep of lodash 3.
\* object and source are both arrays or both plain objects; the result is the
\* value object holds afterwards.
RECURSIVE baseMerge(_, _, _)
\* a merge that assigns a source array instead of merging into the array
mergePropertyAssignArrays(custom, value, srcValue) ==
    LET result == Customizer(custom, value, srcValue)
    IN  IF result # Undefined THEN result
        ELSE IF isPlainObject(srcValue)
        THEN baseMerge(IF isPlainObject(value) THEN value ELSE EmptyObj, srcValue, custom)
        ELSE srcValue

mergeProperty(custom, value, srcValue) ==
    LET result == Customizer(custom, value, srcValue)
    IN  IF result # Undefined THEN result
        ELSE IF isArray(srcValue)
        THEN baseMerge(IF isArray(value) THEN value ELSE JArr(<<>>), srcValue, custom)
        ELSE IF isPlainObject(srcValue)
        THEN baseMerge(IF isPlainObject(value) THEN value ELSE EmptyObj, srcValue, custom)
        ELSE srcValue

baseMerge(object, source, custom) ==
    IF isArray(source)
    THEN JArr([i \in 1..Max(Len(object.v), Len(source.v)) |->
                IF i <= Len(source.v)
                THEN mergeProperty(custom,
                                   IF i <= Len(object.v) THEN object.v[i] ELSE Undefined,
                                   source.v[i])
                ELSE object.v[i]])
    ELSE JObj([k \in DOMAIN object.v \cup DOMAIN source.v |->
                IF k \in DOMAIN source.v
                THEN mergeProperty(custom, Get(object, k), source.v[k])
                ELSE object.v[k]])

\* Array.prototype.join(",") on an array of strings
RECURSIVE join(_)
join(a) ==
    IF Len(a) = 0 THEN ""
    ELSE IF Len(a) = 1 THEN a[1].v
    ELSE a[1].v \o "," \o join(Tail(a))

\* _.unique: the first occurrence of each element, in order
RECURSIVE unique(_)
unique(a) ==
    IF Len(a) = 0 THEN <<>>
    ELSE LET init == unique(SubSeq(a, 1, Len(a) - 1))
             last == a[Len(a)]
         IN  IF \E i \in 1..Len(init) : init[i] = last THEN init ELSE Append(init, last)

\* String.prototype.toLowerCase on the property names and asset types of the
\* model's universe (every other string of the universe is lower case already)
toLowerCase(s) ==
    CASE s = "Name" -> "name"
      [] s = "VERSION" -> "version"
      [] s = "releaseNotes" -> "releasenotes"
      [] s = "vsoFlags" -> "vsoflags"
      [] s = "baseUri" -> "baseuri"
      [] s = "Tags" -> "tags"
      [] s = "Assets" -> "assets"
      [] s = "Contributions" -> "contributions"
      [] s = "contributionPoints" -> "contributionpoints"
      [] s = "contributionTypes" -> "contributiontypes"
      [] s = "Microsoft.VSO.Manifest" -> "microsoft.vso.manifest"
      [] s = "MICROSOFT.VSO.MANIFEST" -> "microsoft.vso.manifest"
      [] OTHER -> s

(***************************************************************************)
(* Paths (node's path module).  A path is [abs, sep, segs]: whether it is  *)
(* absolute, the separator written between its segments, and the segments. *)
(* A segment is a file name [stem, ext]; ".." is DotDot.                   *)
(***************************************************************************)
Name(stem, ext) == [stem |-> stem, ext |-> ext]
DotDot == Name("..", "")
Path(abs, sep, segs) == [abs |-> abs, sep |-> sep, segs |-> segs]
JPath(p) == [t |-> "path", v |-> p]      \* a JavaScript string that holds a path

\* path.normalize on the segments: ".." removes the segment before it; at the
\* root of an absolute path it is dropped, at the start of a relative one kept
RECURSIVE normalize(_, _)
normalize(abs, segs) ==
    IF Len(segs) = 0 THEN <<>>
    ELSE LET init == normalize(abs, SubSeq(segs, 1, Len(segs) - 1))
             last == segs[Len(segs)]
         IN  IF last # DotDot THEN Append(init, last)
             ELSE IF Len(init) > 0 /\ init[Len(init)] # DotDot
             THEN SubSeq(init, 1, Len(init) - 1)
             ELSE IF abs THEN init ELSE Append(init, last)

\* length of the longest common prefix of two segment sequences
RECURSIVE commonPrefix(_, _)
commonPrefix(a, b) ==
    IF Len(a) = 0 \/ Len(b) = 0 \/ a[1] # b[1] THEN 0
    ELSE 1 + commonPrefix(Tail(a), Tail(b))

\* path.join(a, b): concatenation, normalized, with the platform's separator
pathJoin(platformSep, a, b) ==
    Path(a.abs, platformSep, normalize(a.abs, a.segs \o b.segs))

\* path.relative(from, to) for two absolute paths
pathRelative(platformSep, from, to) ==
    LET f == normalize(TRUE, from.segs)
        t == normalize(TRUE, to.segs)
        c == commonPrefix(f, t)
    IN  Path(FALSE, platformSep,
             [i \in 1..(Len(f) - c) |-> DotDot] \o SubSeq(t, c + 1, Len(t)))

\* path.extname of the last segment of a path: the extension with its dot
extname(p) ==
    IF Len(p.segs) = 0 \/ p.segs[Len(p.segs)].ext = "" THEN ""
    ELSE "." \o p.segs[Len(p.segs)].ext

\* str.replace(/\\/g, "/")
replaceBackslashes(p) == [p EXCEPT !.sep = "/"]

(***************************************************************************)
(* Merger                                                                  *)
(***************************************************************************)
\* this.root: the package root, an absolute path
Root == Path(TRUE, "/", <<Name("root", "")>>)

\* obj[key] = val
Put(obj, key, val) ==
    JObj([k \in DOMAIN obj.v \cup {key} |-> IF k = key THEN val ELSE obj.v[k]])

\* var vsoManifest = {__meta_root: this.root}
InitialVsoManifest == JObj([k \in {"__meta_root"} |-> JPath(Root)])

\* The default package manifest template (src/tmpl/default_vsixmanifest.json)
\* with __meta_root set.  The fields are the places mergeKey writes:
\*   Id, Version, Publisher   PackageManifest.Metadata[0].Identity[0].$.*
\*   DisplayName              PackageManifest.Metadata[0].DisplayName[0]
\*   Description              PackageManifest.Metadata[0].Description[0]._
\*   ReleaseNotes, Tags, VSOFlags, Categories   PackageManifest.Metadata[0].*
\*   Asset                    PackageManifest.Assets[0].Asset
DefaultVsixManifest ==
    [ Id |-> Undefined, Version |-> Undefined, Publisher |-> Undefined,
      DisplayName |-> JStr(""), Description |-> JStr(""),
      ReleaseNotes |-> JArr(<<JStr("")>>), Tags |-> JArr(<<JStr("")>>),
      VSOFlags |-> JArr(<<JStr("")>>), Categories |-> JArr(<<JStr("")>>),
      Asset |-> JArr(<<>>), meta_root |-> JPath(Root) ]

\* An element {"$": {...}} of PackageManifest.Assets[0].Asset
AssetEntry(type, source, path) ==
    [t |-> "asset", v |-> [Type |-> type, Source |-> source, Path |-> path]]

\* The state of the synchronous merge loop: the two accumulators and the
\* exception that ended it, if any
MergeState(s, x, thrown) == [vso |-> s, vsix |-> x, thrown |-> thrown]

MustHaveTypeAndPath == JStr("Assets must have a type and a path.")
MustBeRelative == JStr("Paths in manifests must be relative.")

\* lines 114-120: the check of one asset declaration; NotThrown when it passes
validateAsset(asset) ==
    LET keys == DOMAIN asset.v
    IN  IF Cardinality(keys) # 2 \/ "type" \notin keys \/ "path" \notin keys
        THEN MustHaveTypeAndPath
        ELSE IF asset.v["path"].v.abs THEN MustBeRelative
        ELSE NotThrown

\* lines 121-126: asset.path made relative to the root
resolveAsset(sep, dir, asset) ==
    LET absolutePath == pathJoin(sep, Path(TRUE, sep, Root.segs \o dir), asset.v["path"].v)
    IN  Put(asset, "path", JPath(pathRelative(sep, Root, absolutePath)))

\* Tags, VSOFlags, Categories: an array value is joined with commas
joined(value) == IF isArray(value) THEN JStr(join(value.v)) ELSE value

\* lines 213-224: vsixManifest.PackageManifest.Assets = [{"Asset": []}] and one
\* push per asset; asset.path.replace throws a TypeError when path is missing
RECURSIVE pushAssets(_, _)
pushAssets(st, assets) ==
    IF Len(assets) = 0 \/ st.thrown # NotThrown THEN st
    ELSE LET asset == assets[1]
         IN  IF Get(asset, "path") = Undefined
             THEN [st EXCEPT !.thrown = TypeError]
             ELSE pushAssets(
                    [st EXCEPT !.vsix.Asset = JArr(@.v \o
                        << AssetEntry(Get(asset, "type"), JStr("File"),
                                      JPath(replaceBackslashes(Get(asset, "path").v))) >>)],
                    Tail(assets))

\* case "assets" without the reset of line 214: the assets accumulate
mergeAssetsAppend(value, st) ==
    IF isArray(value) THEN pushAssets(st, value.v) ELSE st

\* case "assets" of mergeKey
mergeAssets(value, st) ==
    IF isArray(value)
    THEN pushAssets([st EXCEPT !.vsix.Asset = JArr(<<>>)], value.v)
    ELSE st

\* Merger.mergeKey
mergeKey(key, value, st) ==
    LET k == toLowerCase(key)
    IN  CASE k = "namespace" ->
                [st EXCEPT !.vso = Put(@, "namespace", value), !.vsix.Id = value]
          [] k = "version" ->
                [st EXCEPT !.vso = Put(@, "version", value), !.vsix.Version = value]
          [] k = "name" ->
                [st EXCEPT !.vso = Put(@, "name", value), !.vsix.DisplayName = value]
          [] k = "description" ->
                [st EXCEPT !.vso = Put(@, "description", value), !.vsix.Description = value]
          [] k = "publisher" -> [st EXCEPT !.vsix.Publisher = value]
          [] k = "releasenotes" -> [st EXCEPT !.vsix.ReleaseNotes = JArr(<<value>>)]
          [] k = "tags" -> [st EXCEPT !.vsix.Tags = JArr(<<joined(value)>>)]
          [] k = "vsoflags" -> [st EXCEPT !.vsix.VSOFlags = JArr(<<joined(value)>>)]
          [] k = "categories" -> [st EXCEPT !.vsix.Categories = JArr(<<joined(value)>>)]
          [] k = "baseuri" -> [st EXCEPT !.vso = Put(@, "baseUri", value)]
          [] k = "contributions" ->
                [st EXCEPT !.vso = Put(@, "contributions",
                    baseMerge(IF Truthy(Get(@, "contributions"))
                              THEN Get(@, "contributions") ELSE EmptyObj, value, TRUE))]
          [] k = "contributionpoints" ->
                [st EXCEPT !.vso = Put(@, "contributionPoints",
                    baseMerge(IF Truthy(Get(@, "contributionPoints"))
                              THEN Get(@, "contributionPoints") ELSE EmptyObj, value, FALSE))]
          [] k = "contributiontypes" ->
                [st EXCEPT !.vso = Put(@, "contributionTypes",
                    baseMerge(IF Truthy(Get(@, "contributionTypes"))
                              THEN Get(@, "contributionTypes") ELSE EmptyObj, value, FALSE))]
          [] k = "assets" -> mergeAssets(value, st)
          [] OTHER -> st

\* A property of a parsed partial manifest, in Object.keys order
Entry(key, value) == [key |-> key, value |-> value]

\* lines 112-128: the first exception the asset checks of a partial throw
RECURSIVE validateAssets(_)
validateAssets(assets) ==
    IF Len(assets) = 0 THEN NotThrown
    ELSE IF validateAsset(assets[1]) # NotThrown THEN validateAsset(assets[1])
    ELSE validateAssets(Tail(assets))

\* lines 112-128: the partial after its asset paths were rewritten in place;
\* only the property spelled "assets" is looked at
transformAssets(sep, dir, entries) ==
    [i \in 1..Len(entries) |->
        IF entries[i].key = "assets" /\ isArray(entries[i].value)
        THEN Entry("assets", JArr([j \in 1..Len(entries[i].value.v) |->
                                     resolveAsset(sep, dir, entries[i].value.v[j])]))
        ELSE entries[i]]

\* lines 131-133: mergeKey for each key of a partial
RECURSIVE mergeKeys(_, _)
mergeKeys(st, entries) ==
    IF Len(entries) = 0 \/ st.thrown # NotThrown THEN st
    ELSE mergeKeys(mergeKey(entries[1].key, entries[1].value, st), Tail(entries))

\* lines 110-134: the body of partials.forEach for one partial
mergePartial(sep, st, file) ==
    LET declared == { i \in 1..Len(file.entries) :
                        file.entries[i].key = "assets" /\ isArray(file.entries[i].value) }
        thrown == IF declared = {} THEN NotThrown
                  ELSE validateAssets(file.entries[CHOOSE i \in declared : TRUE].value.v)
    IN  IF thrown # NotThrown THEN [st EXCEPT !.thrown = thrown]
        ELSE mergeKeys(st, transformAssets(sep, file.dir, file.entries))

\* lines 109-136: partials.forEach
RECURSIVE mergePartials(_, _, _)
mergePartials(sep, st, rest) ==
    IF Len(rest) = 0 \/ st.thrown # NotThrown THEN st
    ELSE mergePartials(sep, mergePartial(sep, st, rest[1]), Tail(rest))

(***************************************************************************)
(* VsixWriter                                                              *)
(***************************************************************************)
VSO_MANIFEST_FILENAME == Path(FALSE, "/", <<Name("extension", "vsomanifest")>>)
VSIX_MANIFEST_FILENAME == Path(FALSE, "/", <<Name("extension", "vsixmanifest")>>)
CONTENT_TYPES_FILENAME == Path(FALSE, "/", <<Name("[Content_Types]", "xml")>>)

CONTENT_TYPE_MAP ==
    [ txt |-> "text/plain", pkgdef |-> "text/plain", xml |-> "text/xml",
      vsixmanifest |-> "text/xml", vsomanifest |-> "application/json",
      json |-> "application/json", htm |-> "text/html", html |-> "text/html",
      rtf |-> "application/rtf", pdf |-> "application/pdf", gif |-> "image/gif",
      jpg |-> "image/jpg", jpeg |-> "image/jpg", tiff |-> "image/tiff",
      vsix |-> "application/zip", zip |-> "application/zip",
      dll |-> "application/octet-stream" ]

\* The entry prepManifests pushes
ManifestAsset ==
    AssetEntry(JStr("Microsoft.VSO.Manifest"), Undefined, JPath(VSO_MANIFEST_FILENAME))

\* _.get(asset, "$.Type", "x").toLowerCase() === "microsoft.vso.manifest"
isVsoManifestAsset(asset) ==
    /\ asset.t = "asset"
    /\ asset.v.Type # Undefined
    /\ toLowerCase(asset.v.Type.v) = "microsoft.vso.manifest"

keepAsset(asset) == ~isVsoManifestAsset(asset)

\* VsixWriter.prepManifests, on the package manifest x.  Without an Asset node
\* _.set(..., "PackageManifest.Assets[0].Asset[0]", assets) makes the new array
\* the first element of Asset, and the push goes to that inner array.
prepManifests(x) ==
    IF Truthy(x.Asset)
    THEN [x EXCEPT !.Asset = JArr(Append(SelectSeq(@.v, keepAsset), ManifestAsset))]
    ELSE [x EXCEPT !.Asset = JArr(<< JArr(<<ManifestAsset>>) >>)]

\* The files below the package root that exist on disk, as segments below Root
DiskFiles ==
    { <<Name("a", "png")>>, <<Name("img", ""), Name("b", "json")>>,
      <<Name("sub", ""), Name("a", "png")>>, <<Name("c", "xyz")>>,
      <<Name("extension", "vsomanifest")>> }

\* The content of a zip entry: the bytes of a file on disk or a generated text
Data(kind, of) == [t |-> kind, v |-> of]

\* fs.readFileSync(path.join(root, asset.$.Path)); Undefined when it throws
readFileSync(platformSep, assetPath) ==
    LET p == pathJoin(platformSep, Root, assetPath)
    IN  IF Len(p.segs) > 1 /\ p.segs[1] = Root.segs[1] /\ Tail(p.segs) \in DiskFiles
        THEN Data("bytes", p.segs)
        ELSE Undefined

\* JSZip.file(name, data): a new entry, or new data for the entry of that name
zipFile(z, name, data) ==
    IF \E i \in 1..Len(z) : z[i].name = name
    THEN [i \in 1..Len(z) |-> IF z[i].name = name THEN [z[i] EXCEPT !.data = data] ELSE z[i]]
    ELSE Append(z, [name |-> name, data |-> data])

\* lines 305-315: the assets writeVsix copies, in order
isCopied(asset) ==
    /\ asset.t = "asset"
    /\ asset.v.Type # JStr("Microsoft.VSO.Manifest")

\* the result is [thrown, z]: whether readFileSync threw, and the zip entries
RECURSIVE addAssets(_, _, _)
addAssets(platformSep, z, assets) ==
    IF Len(assets) = 0 THEN [thrown |-> FALSE, z |-> z]
    ELSE IF ~isCopied(assets[1]) THEN addAssets(platformSep, z, Tail(assets))
    ELSE IF readFileSync(platformSep, assets[1].v.Path.v) = Undefined
    THEN [thrown |-> TRUE, z |-> z]
    ELSE addAssets(platformSep,
                   zipFile(z, replaceBackslashes(assets[1].v.Path.v),
                           readFileSync(platformSep, assets[1].v.Path.v)),
                   Tail(assets))

\* A string as the sequence of its pieces; _.trimLeft(string, chars) drops the
\* leading pieces that are in chars
RECURSIVE trimLeft(_, _)
trimLeft(string, chars) ==
    IF Len(string) > 0 /\ string[1] \in chars THEN trimLeft(Tail(string), chars)
    ELSE string

Whitespace == {" ", "\t", "\n"}

\* path.extname(f) as pieces: the dot and the extension, or the empty string
extnamePieces(f) ==
    IF Len(f.segs) = 0 \/ f.segs[Len(f.segs)].ext = "" THEN <<>>
    ELSE <<".", f.segs[Len(f.segs)].ext>>

RECURSIVE concatPieces(_)
concatPieces(pieces) ==
    IF Len(pieces) = 0 THEN "" ELSE pieces[1] \o concatPieces(Tail(pieces))

\* _.trimLeft(path.extname(f)): chars defaults to whitespace
extensionOf(f) == concatPieces(trimLeft(extnamePieces(f), Whitespace))

\* VsixWriter.genContentTypesXml: the Default elements, in order
genContentTypesXml(fileNames) ==
    LET uniqueExtensions == unique([i \in 1..Len(fileNames) |-> extensionOf(fileNames[i])])
    IN  [i \in 1..Len(uniqueExtensions) |->
            [ Extension |-> uniqueExtensions[i],
              ContentType |-> IF uniqueExtensions[i] \in DOMAIN CONTENT_TYPE_MAP
                              THEN CONTENT_TYPE_MAP[uniqueExtensions[i]]
                              ELSE "application/octet-stream" ]]

\* removeMetaKeys taken to return the object as it is
removeMetaKeysNone(obj) == obj

\* ManifestWriter.removeMetaKeys: _.omit of the keys for which
\* _.startsWith(k, "__meta_") holds; MetaKeys are those property names of the
\* model's universe
MetaKeys == {"__meta_root", "__meta_x"}
removeMetaKeys(obj) == JObj([k \in DOMAIN obj.v \ MetaKeys |-> obj.v[k]])
removeMetaField(x) == [k \in DOMAIN x \ {"meta_root"} |-> x[k]]

(***************************************************************************)
(* Bounds and input universes                                              *)
(***************************************************************************)
MaxFiles == 2       \* manifest files discovered
MaxAssets == 2      \* asset declarations in one partial manifest
MaxArr == 2         \* length of an array under a contributions key
MaxPrep == 3        \* prepManifests calls on one package manifest

SeqsUpTo(S, n) == UNION { [1..m -> S] : m \in 0..n }

\* A discovered file: the directory it is in (below the root), whether its
\* text parses as JSON, and the properties of the parsed object in key order
File(dir, entries) == [dir |-> dir, ok |-> TRUE, entries |-> entries]
BadFile == [dir |-> <<>>, ok |-> FALSE, entries |-> <<>>]
One(key, value) == File(<<>>, <<Entry(key, value)>>)
SubDir == <<Name("sub", "")>>

Asset(type, path) == JObj([type |-> JStr(type), path |-> JPath(path)])
Rel(segs) == Path(FALSE, "/", segs)
AssetA == Asset("img", Rel(<<Name("a", "png")>>))
AssetB == Asset("doc", Rel(<<Name("img", ""), Name("b", "json")>>))
AssetVso == Asset("img", Rel(<<Name("extension", "vsomanifest")>>))
AssetReserved == Asset("Microsoft.VSO.Manifest", Rel(<<Name("c", "xyz")>>))
AssetAbs == Asset("img", Path(TRUE, "/", <<Name("abs", ""), Name("a", "png")>>))
AssetExtra == JObj([type |-> JStr("img"), path |-> JPath(Rel(<<Name("a", "png")>>)),
                    extra |-> JNum(1)])
AssetNoPath == JObj([type |-> JStr("img")])
AssetMissing == Asset("img", Rel(<<Name("missing", "png")>>))

\* Partial manifests that set the overwrite fields
OverwriteFiles ==
    { One(k, JStr(v)) : k \in {"namespace", "description", "publisher", "releaseNotes",
                                "baseUri"}, v \in {"a", "b"} }
    \cup { One("VERSION", JStr("a")), One("version", JStr("b")),
           One("Name", JStr("a")), One("name", JStr("b")),
           One("tags", JArr(<<JStr("a"), JStr("b")>>)), One("tags", JStr("c")),
           One("Tags", JArr(<<JStr("b")>>)),
           One("vsoFlags", JArr(<<JStr("a"), JStr("b")>>)), One("vsoFlags", JStr("c")),
           One("categories", JArr(<<JStr("a")>>)), One("categories", JStr("c")),
           One("assets", JArr(<<AssetA>>)), One("assets", JArr(<<AssetB, AssetA>>)),
           One("assets", JArr(<<>>)), One("assets", JStr("none")),
           One("Assets", JArr(<<AssetB>>)), One("assets", JArr(<<AssetMissing>>)),
           File(SubDir, <<Entry("assets", JArr(<<AssetA>>))>>),
           One("unknown", JStr("a")),
           File(<<>>, <<Entry("name", JStr("a")), Entry("Name", JStr("b"))>>),
           File(<<>>, <<Entry("Tags", JStr("a")), Entry("tags", JArr(<<JStr("c")>>))>>),
           File(<<>>, <<Entry("namespace", JStr("c")), Entry("assets", JArr(<<AssetA>>))>>),
           File(<<>>, <<>>), BadFile }

(***************************************************************************)
(* The packaging flow: Merger.merge, then doPackageCreate's callback       *)
(***************************************************************************)
InitWith(universe) ==
    /\ files \in SeqsUpTo(universe, MaxFiles)
    /\ reads = [i \in 1..Len(files) |-> "pending"]
    /\ manifests = "pending"
    /\ vso = InitialVsoManifest
    /\ vsix = DefaultVsixManifest
    /\ pc = "merging"
    /\ prepCount = 0
    /\ zip = <<>>
    /\ outFile = Undefined
    /\ pathSep \in {"/", "\\"}
    /\ given = DefaultVsixManifest
    /\ resp = Undefined
    /\ outcome = NotThrown
    /\ partials = [i \in 1..Len(files) |-> Undefined]
    /\ tmpDir = "none"
    /\ published = NotPublished
    /\ publisher = Undefined
    /\ log = <<>>

errVars == <<resp, outcome>>

\* The file a partial manifest was loaded from: m.json in its directory
Origin(file) == Path(TRUE, "/", Root.segs \o file.dir \o <<Name("m", "json")>>)

\* lines 95-97: result = JSON.parse(data); result.__origin = file.  The
\* assignment replaces the value of a property the text declares under that
\* name and adds the property after the others otherwise.
Parsed(file) ==
    LET origin == Entry("__origin", JPath(Origin(file)))
        declared == \E i \in 1..Len(file.entries) : file.entries[i].key = "__origin"
    IN  [t |-> "partial",
         v |-> [file EXCEPT !.entries =
                  IF declared
                  THEN [i \in 1..Len(@) |-> IF @[i].key = "__origin" THEN origin ELSE @[i]]
                  ELSE Append(@, origin)]]

\* Q.all taken to collect the values in the order the promises are fulfilled
QAllArrival(values, i, value) ==
    LET free == { k \in 1..Len(values) : values[k] = Undefined }
        first == CHOOSE k \in free : \A j \in free : k <= j
    IN  [values EXCEPT ![first] = value]

\* Q.all(manifestPromises): the value of the i-th promise is stored at index i
\* of the array the callback of line 109 receives
QAll(values, i, value) == [values EXCEPT ![i] = value]

\* settings.outputPath
OutPath == JPath(Path(TRUE, "/", <<Name("out", "vsix")>>))

\* The value the promise of writeVsix is fulfilled with: what the callback of
\* lines 335-344 returns
writeVsixValue == Undefined

\* lines 93-97: a file was read and its text parsed
ReadParsed(i) ==
    /\ reads[i] = "pending"
    /\ files[i].ok
    /\ reads' = [reads EXCEPT ![i] = "fulfilled"]
    /\ partials' = QAll(partials, i, Parsed(files[i]))
    /\ UNCHANGED <<errVars, pubVars, files, manifests, vso, vsix, pc, prepCount, zip, outFile, pathSep, given, tmpDir, published>>

\* lines 98-102: JSON.parse threw, the file's promise is rejected
ReadThrows(i) ==
    /\ reads[i] = "pending"
    /\ ~files[i].ok
    /\ reads' = [reads EXCEPT ![i] = "rejected"]
    /\ UNCHANGED <<errVars, pubVars, files, manifests, vso, vsix, pc, prepCount, zip, outFile, pathSep, given, partials, tmpDir, published>>

\* Q.all taken to be fulfilled once no promise is pending
allSettled == \A i \in 1..Len(reads) : reads[i] # "pending"

\* Q.all(manifestPromises) is fulfilled once every promise is
allFulfilled == \A i \in 1..Len(reads) : reads[i] = "fulfilled"

\* lines 109-136: the callback of Q.all(manifestPromises).then; an exception
\* in it ends in the catch of line 137 and merge() resolves with undefined
MergePartials ==
    /\ manifests = "pending"
    /\ allFulfilled
    /\ LET n == Cardinality({ i \in 1..Len(partials) :
                                \A j \in 1..i : partials[j] # Undefined })
           done == mergePartials(pathSep, MergeState(vso, vsix, NotThrown),
                                 [i \in 1..n |-> partials[i].v])
           \* partial["assets"] on an element that is undefined is a TypeError
           st == IF n < Len(partials) /\ done.thrown = NotThrown
                 THEN [done EXCEPT !.thrown = TypeError] ELSE done
       IN  /\ vso' = st.vso
           /\ vsix' = st.vsix
           /\ manifests' = IF st.thrown = NotThrown THEN "split" ELSE "undefined"
    /\ UNCHANGED <<errVars, pubVars, files, reads, pc, prepCount, zip, outFile, pathSep, given, partials, tmpDir, published>>

\* line 137: Q.all was rejected by the first rejected read; console.error
\* handles it and merge() resolves with undefined
MergeRejected ==
    /\ manifests = "pending"
    /\ \E i \in 1..Len(reads) : reads[i] = "rejected"
    /\ manifests' = "undefined"
    /\ UNCHANGED <<errVars, pubVars, files, reads, vso, vsix, pc, prepCount, zip, outFile, pathSep, given, partials, tmpDir, published>>

\* app.ts lines 36-38: new VsixWriter(manifests.vsoManifest, manifests.vsixManifest)
CreateWriter ==
    /\ pc = "merging"
    /\ manifests = "split"
    /\ vsix' = prepManifests(vsix)
    /\ prepCount' = 1
    /\ pc' = "prepped"
    /\ given' = vsix
    /\ UNCHANGED <<errVars, pubVars, files, reads, manifests, vso, zip, outFile, pathSep, partials, tmpDir, published>>

\* app.ts line 38: manifests is undefined, manifests.vsoManifest throws
CreateWriterThrows ==
    /\ pc = "merging"
    /\ manifests = "undefined"
    /\ pc' = "rejected"
    /\ UNCHANGED <<errVars, pubVars, files, reads, manifests, vso, vsix, prepCount, zip, outFile, pathSep, given, partials, tmpDir, published>>

\* another VsixWriter is constructed on the same package manifest (not a
\* step of doPackageCreate, which constructs one)
PrepManifests ==
    /\ pc = "prepped"
    /\ prepCount < MaxPrep
    /\ vsix' = prepManifests(vsix)
    /\ prepCount' = prepCount + 1
    /\ UNCHANGED <<errVars, pubVars, files, reads, manifests, vso, pc, zip, outFile, pathSep, given, partials, tmpDir, published>>

\* writeVsix lines 298-315: the assets are read from disk and added
WriteVsixAssets ==
    /\ pc = "prepped"
    /\ Truthy(Get(vso, "__meta_root"))
    /\ LET r == addAssets(pathSep, <<>>, vsix.Asset.v)
       IN  /\ ~r.thrown
           /\ zip' = r.z
    /\ pc' = "tmp"
    /\ UNCHANGED <<errVars, pubVars, files, reads, manifests, vso, vsix, prepCount, outFile, pathSep, given, partials, tmpDir, published>>

\* writeVsix lines 299-312: the root is unknown or readFileSync throws
WriteVsixThrows ==
    /\ pc = "prepped"
    /\ \/ ~Truthy(Get(vso, "__meta_root"))
       \/ addAssets(pathSep, <<>>, vsix.Asset.v).thrown
    /\ pc' = "rejected"
    /\ UNCHANGED <<errVars, pubVars, files, reads, manifests, vso, vsix, prepCount, zip, outFile, pathSep, given, partials, tmpDir, published>>

\* writeVsix lines 318-324: tmp.dir calls back with a directory
TmpDir ==
    /\ pc = "tmp"
    /\ pc' = "staging"
    /\ tmpDir' = "acquired"
    /\ UNCHANGED <<errVars, pubVars, files, reads, manifests, vso, vsix, prepCount, zip, outFile, pathSep, given, partials, published>>

\* writeVsix lines 320-322: tmp.dir calls back with an error
TmpDirFails ==
    /\ pc = "tmp"
    /\ pc' = "rejected"
    /\ UNCHANGED <<errVars, pubVars, files, reads, manifests, vso, vsix, prepCount, zip, outFile, pathSep, given, partials, tmpDir, published>>

\* writeVsix lines 325-334: the manifests are written and added to the zip
WriteManifests ==
    /\ pc = "staging"
    /\ zip' = zipFile(zipFile(zip, VSO_MANIFEST_FILENAME,
                              Data("vsomanifest", removeMetaKeys(vso))),
                      VSIX_MANIFEST_FILENAME, Data("vsixmanifest", removeMetaField(vsix)))
    /\ pc' = "staged"
    /\ UNCHANGED <<errVars, pubVars, files, reads, manifests, vso, vsix, prepCount, outFile, pathSep, given, partials, tmpDir, published>>

\* writeVsix lines 326-334: a stream cannot be written or a manifest cannot be
\* read back; the promise of writeVsix is rejected
WriteManifestsFails ==
    /\ pc = "staging"
    /\ pc' = "rejected"
    /\ UNCHANGED <<errVars, pubVars, files, reads, manifests, vso, vsix, prepCount, zip, outFile, pathSep, given, partials, tmpDir, published>>

\* writeVsix lines 335-344: the content types are added, the archive is
\* generated and fs.writeFile is started; the promise of writeVsix is fulfilled
Generate ==
    /\ pc = "staged"
    /\ zip' = zipFile(zip, CONTENT_TYPES_FILENAME,
                      Data("contenttypes",
                           genContentTypesXml([i \in 1..Len(zip) |-> zip[i].name])))
    /\ pc' = "resolved"
    /\ UNCHANGED <<errVars, pubVars, files, reads, manifests, vso, vsix, prepCount, outFile, pathSep, given, partials, tmpDir, published>>

\* writeVsix lines 336-342: building the content types or the buffer throws
GenerateThrows ==
    /\ pc = "staged"
    /\ pc' = "rejected"
    /\ UNCHANGED <<errVars, pubVars, files, reads, manifests, vso, vsix, prepCount, zip, outFile, pathSep, given, partials, tmpDir, published>>

\* line 343: fs.writeFile has written the buffer to outPath
WriteFileDone ==
    /\ pc = "resolved"
    /\ outFile' = JArr(zip)
    /\ pc' = "written"
    /\ UNCHANGED <<errVars, pubVars, files, reads, manifests, vso, vsix, prepCount, zip, pathSep, given, partials, tmpDir, published>>

\* line 343: fs.writeFile failed
WriteFileFails ==
    /\ pc = "resolved"
    /\ pc' = "writeFailed"
    /\ UNCHANGED <<errVars, pubVars, files, reads, manifests, vso, vsix, prepCount, zip, outFile, pathSep, given, partials, tmpDir, published>>

NextPkg ==
    \/ \E i \in 1..Len(files) : ReadParsed(i)
    \/ \E i \in 1..Len(files) : ReadThrows(i)
    \/ MergePartials
    \/ MergeRejected
    \/ CreateWriter
    \/ CreateWriterThrows
    \/ WriteVsixAssets
    \/ WriteVsixThrows
    \/ TmpDir
    \/ TmpDirFails
    \/ WriteManifests
    \/ WriteManifestsFails
    \/ Generate
    \/ GenerateThrows
    \/ WriteFileDone
    \/ WriteFileFails

\* app.ts lines 71-74 (publishVsix with package settings): the promise of
\* doPackageCreate is fulfilled with the value writeVsix resolved with, and
\* doPublish is called with it as settings.publish.vsixPath
Publish ==
    /\ pc \in {"resolved", "written", "writeFailed"}
    /\ published = NotPublished
    /\ published' = [t |-> "publish", v |-> [vsixPath |-> writeVsixValue, archive |-> outFile]]
    /\ UNCHANGED <<errVars, pubVars, files, reads, manifests, vso, vsix, pc, prepCount, zip, outFile, pathSep, given, partials, tmpDir>>

\* The process ends.  writeVsix never calls the cleanupCallback of line 319:
\* whether the directory is removed is left to the exit hook of the tmp
\* package, which removes it or keeps it depending on its version and on how
\* the process ended.
ProcessExit ==
    /\ pc \in {"written", "writeFailed", "rejected"}
    /\ tmpDir = "acquired"
    /\ tmpDir' \in {"removed", "kept"}
    /\ UNCHANGED <<errVars, pubVars, files, reads, manifests, vso, vsix, pc, prepCount, zip, outFile, pathSep, given, partials, published>>

\* publishVsix with package settings, to the end of the process
NextPublishVsix ==
    \/ NextPkg
    \/ Publish
    \/ ProcessExit

InitOverwrite == InitWith(OverwriteFiles)
SpecOverwrite == InitOverwrite /\ [][NextPkg]_vars

(***************************************************************************)
(* Overwrite fields                                                        *)
(***************************************************************************)
\* The merge loop has run to its end and the writer has not touched vsix yet
Merged == manifests = "split" /\ pc = "merging"

RECURSIVE AllEntries(_)
AllEntries(fs) ==
    IF Len(fs) = 0 THEN <<>> ELSE fs[1].entries \o AllEntries(Tail(fs))

\* The values declared for a field, in discovery order, keys compared
\* case-insensitively
Declared(field) ==
    LET all == AllEntries(files)
        idx == { i \in 1..Len(all) : toLowerCase(all[i].key) = field }
    IN  [n \in 1..Cardinality(idx) |->
            all[CHOOSE i \in idx : Cardinality({ j \in idx : j <= i }) = n].value]

DeclaredArrays(field) == SelectSeq(Declared(field), isArray)

LastOf(seq) == seq[Len(seq)]

\* The Asset list has one entry per declared asset, in order
AssetsMatch(list, assets) ==
    /\ Len(list) = Len(assets)
    /\ \A i \in 1..Len(list) :
        /\ list[i].t = "asset"
        /\ list[i].v.Type = Get(assets[i], "type")
        /\ list[i].v.Source = JStr("File")
        /\ list[i].v.Path.v.sep = "/"
        /\ LastOf(list[i].v.Path.v.segs) = LastOf(Get(assets[i], "path").v.segs)

ScalarFieldsOverwritten ==
    /\ Declared("namespace") # <<>> =>
          /\ Get(vso, "namespace") = LastOf(Declared("namespace"))
          /\ vsix.Id = LastOf(Declared("namespace"))
    /\ Declared("version") # <<>> =>
          /\ Get(vso, "version") = LastOf(Declared("version"))
          /\ vsix.Version = LastOf(Declared("version"))
    /\ Declared("name") # <<>> =>
          /\ Get(vso, "name") = LastOf(Declared("name"))
          /\ vsix.DisplayName = LastOf(Declared("name"))
    /\ Declared("description") # <<>> =>
          /\ Get(vso, "description") = LastOf(Declared("description"))
          /\ vsix.Description = LastOf(Declared("description"))
    /\ Declared("publisher") # <<>> => vsix.Publisher = LastOf(Declared("publisher"))
    /\ Declared("releasenotes") # <<>> =>
          vsix.ReleaseNotes = JArr(<<LastOf(Declared("releasenotes"))>>)
    /\ Declared("tags") # <<>> => vsix.Tags = JArr(<<joined(LastOf(Declared("tags")))>>)
    /\ Declared("vsoflags") # <<>> =>
          vsix.VSOFlags = JArr(<<joined(LastOf(Declared("vsoflags")))>>)
    /\ Declared("categories") # <<>> =>
          vsix.Categories = JArr(<<joined(LastOf(Declared("categories")))>>)
    /\ Declared("baseuri") # <<>> => Get(vso, "baseUri") = LastOf(Declared("baseuri"))

\* C1 as stated: after merge every overwrite field holds the value of the last
\* partial that declares it; for assets the Asset list holds one entry per
\* asset of the last partial that declares assets and nothing of an earlier one
C1_LastDeclarationWins ==
    Merged =>
        /\ ScalarFieldsOverwritten
        /\ Declared("assets") # <<>> =>
              AssetsMatch(vsix.Asset.v,
                          IF isArray(LastOf(Declared("assets")))
                          THEN LastOf(Declared("assets")).v ELSE <<>>)

\* C1 amended: after merge every overwrite field holds the value of the last
\* partial that declares it; for assets, of the last partial that declares
\* assets as an array (an assets value that is not an array is ignored)
C1_LastArrayDeclarationWins ==
    Merged =>
        /\ ScalarFieldsOverwritten
        /\ DeclaredArrays("assets") # <<>> =>
              AssetsMatch(vsix.Asset.v, LastOf(DeclaredArrays("assets")).v)

\* C1 witness: two partials declared assets as arrays and tags, the earlier
\* one with more assets, and the merge has finished
C1_Witness ==
    /\ Merged
    /\ Len(DeclaredArrays("assets")) = 2
    /\ Len(DeclaredArrays("assets")[1].v) > Len(DeclaredArrays("assets")[2].v)
    /\ Len(vsix.Asset.v) = 1

(***************************************************************************)
(* contributions, contributionPoints, contributionTypes                    *)
(***************************************************************************)
\* Arrays of numbers.  (Strings are left out below the contributions keys:
\* _.merge treats a string in the accumulator as array-like.)
NumArrays == { JArr(a) : a \in SeqsUpTo({JNum(1), JNum(2)}, MaxArr) }

X(v) == JObj([x |-> v])
ContributionValues ==
    { X(a) : a \in NumArrays }
    \cup { X(JNum(5)), X(JObj([z |-> JArr(<<JNum(1)>>)])),
           X(JObj([z |-> JArr(<<JNum(2), JNum(1)>>)])),
           JObj([y |-> JArr(<<JNum(1)>>)]),
           JObj([x |-> JArr(<<JNum(1)>>), y |-> JArr(<<JNum(2)>>)]) }

ContributionFiles ==
    { One(k, v) : k \in {"contributions", "contributionPoints"}, v \in ContributionValues }
    \cup { One("contributionTypes", X(JArr(<<JNum(1), JNum(2)>>))),
           One("contributionTypes", X(JArr(<<JNum(2)>>))),
           One("Contributions", X(JArr(<<JNum(2)>>))),
           File(<<>>, <<Entry("contributions", X(JArr(<<JNum(1)>>))),
                        Entry("Contributions", X(JArr(<<JNum(2)>>)))>>),
           One("assets", JArr(<<AssetMissing>>)),
           File(<<>>, <<>>), BadFile }

\* Contributions do not involve paths: one platform
InitContributions == InitWith(ContributionFiles) /\ pathSep = "/"
SpecContributions == InitContributions /\ [][NextPkg]_vars

\* The values a sequence of objects holds under a key, in order
AtKey(objs, key) ==
    LET idx == { i \in 1..Len(objs) : objs[i].t = "obj" /\ key \in DOMAIN objs[i].v }
    IN  [n \in 1..Cardinality(idx) |->
            objs[CHOOSE i \in idx : Cardinality({ j \in idx : j <= i }) = n].v[key]]

AllArrays(vals) == \A i \in 1..Len(vals) : isArray(vals[i])
AllObjects(vals) == \A i \in 1..Len(vals) : isPlainObject(vals[i])

RECURSIVE Concatenation(_)
Concatenation(arrays) ==
    IF Len(arrays) = 0 THEN <<>> ELSE arrays[1].v \o Concatenation(Tail(arrays))

\* Element i of the last array that has an element i
RECURSIVE Overlay(_)
Overlay(arrays) ==
    IF Len(arrays) = 0 THEN <<>>
    ELSE LET below == Overlay(SubSeq(arrays, 1, Len(arrays) - 1))
             top == LastOf(arrays).v
         IN  [i \in 1..Max(Len(below), Len(top)) |->
                IF i <= Len(top) THEN top[i] ELSE below[i]]

\* C2: under service.contributions the array of a key is the concatenation,
\* in discovery order, of the arrays the partials contributed for that key
\* (the accumulator's entries first), at the top level and inside objects
C2_ContributionsConcatenate ==
    Merged =>
        LET cs == Declared("contributions")
            acc == Get(vso, "contributions")
        IN  /\ \A k \in {"x", "y"} :
                (AtKey(cs, k) # <<>> /\ AllArrays(AtKey(cs, k))) =>
                    Get(acc, k) = JArr(Concatenation(AtKey(cs, k)))
            /\ (AtKey(cs, "x") # <<>> /\ AllObjects(AtKey(cs, "x"))) =>
                    Get(Get(acc, "x"), "z") = JArr(Concatenation(AtKey(AtKey(cs, "x"), "z")))

\* C2 witness: two partials contributed non-empty arrays for x, merged
C2_Witness ==
    /\ Merged
    /\ Len(files) = 2
    /\ Len(AtKey(Declared("contributions"), "x")) = 2
    /\ AllArrays(AtKey(Declared("contributions"), "x"))
    /\ \A i \in 1..2 : Len(AtKey(Declared("contributions"), "x")[i].v) > 0
    /\ AtKey(Declared("contributions"), "x")[1] # AtKey(Declared("contributions"), "x")[2]
    /\ Len(Get(Get(vso, "contributions"), "x").v) > 2

PointFields == { <<"contributionpoints", "contributionPoints">>,
                 <<"contributiontypes", "contributionTypes">> }

\* C3 as stated: under contributionPoints and contributionTypes an incoming
\* array overwrites the accumulated array: the accumulator holds exactly the
\* last array contributed for the key
C3_ArraysOverwritten ==
    Merged =>
        \A f \in PointFields :
            LET xs == AtKey(Declared(f[1]), "x")
            IN  (xs # <<>> /\ AllArrays(xs)) => Get(Get(vso, f[2]), "x") = LastOf(xs)

\* C3 amended: objects are merged recursively and arrays index by index:
\* element i of the accumulated array is the element i of the last array
\* contributed that has one, so a shorter incoming array leaves the tail of
\* the accumulated array in place
C3_ArraysMergedByIndex ==
    Merged =>
        \A f \in PointFields :
            LET ps == Declared(f[1])
            IN  /\ \A k \in {"x", "y"} :
                    (AtKey(ps, k) # <<>> /\ AllArrays(AtKey(ps, k))) =>
                        Get(Get(vso, f[2]), k) = JArr(Overlay(AtKey(ps, k)))
                /\ (AtKey(ps, "x") # <<>> /\ AllObjects(AtKey(ps, "x"))) =>
                        Get(Get(Get(vso, f[2]), "x"), "z")
                            = JArr(Overlay(AtKey(AtKey(ps, "x"), "z")))

\* C3 witness: a partial contributed a shorter array for contributionPoints.x
\* than an earlier one, and an element of the earlier array is still there
C3_Witness ==
    /\ Merged
    /\ Len(AtKey(Declared("contributionpoints"), "x")) = 2
    /\ AllArrays(AtKey(Declared("contributionpoints"), "x"))
    /\ Len(AtKey(Declared("contributionpoints"), "x")[2].v) = 1
    /\ Len(AtKey(Declared("contributionpoints"), "x")[1].v) = 2
    /\ Len(Get(Get(vso, "contributionPoints"), "x").v) = 2

(***************************************************************************)
(* Loading is all-or-nothing                                               *)
(***************************************************************************)
\* C9: the accumulators are touched and merge() yields manifests only when
\* every file was read and parsed; with one file that does not parse, no
\* partial manifest is ever applied
C9_AllOrNothing ==
    /\ (vso # InitialVsoManifest \/ vsix # DefaultVsixManifest \/ manifests = "split")
          => (allFulfilled /\ \A i \in 1..Len(files) : files[i].ok)
    /\ (\E i \in 1..Len(files) : ~files[i].ok)
          => (vso = InitialVsoManifest /\ vsix = DefaultVsixManifest /\ pc \in {"merging", "rejected"})

\* C9 witness: one file failed to parse after another, with properties to
\* merge, was parsed; the operation was given up with untouched accumulators
C9_Witness ==
    /\ \E i, j \in 1..Len(files) :
          /\ reads[i] = "rejected"
          /\ reads[j] = "fulfilled"
          /\ files[j].entries # <<>>
    /\ manifests = "undefined"
    /\ pc = "rejected"
    /\ vso = InitialVsoManifest

(***************************************************************************)
(* Assets                                                                  *)
(***************************************************************************)
AssetDecls == {AssetA, AssetB, AssetVso, AssetReserved, AssetAbs, AssetExtra}

AssetFiles ==
    { One("assets", JArr(a)) : a \in SeqsUpTo(AssetDecls, MaxAssets) }
    \cup { One("Assets", JArr(<<AssetExtra>>)), One("Assets", JArr(<<AssetAbs>>)),
           One("Assets", JArr(<<AssetNoPath>>)), One("assets", JArr(<<AssetNoPath>>)),
           One("assets", JArr(<<AssetMissing>>)),
           File(SubDir, <<Entry("assets", JArr(<<AssetA>>))>>),
           File(<<>>, <<>>), BadFile }

InitAssets == InitWith(AssetFiles)
SpecAssets == InitAssets /\ [][NextPkg]_vars

\* The Asset entries of the package manifest that are asset elements
AssetPaths(list) ==
    LET es == SelectSeq(list, LAMBDA e : e.t = "asset")
    IN  [i \in 1..Len(es) |-> es[i].v.Path]

\* C4: the Asset list of the package manifest never holds two entries with
\* the same Path
C4_NoDuplicatePaths ==
    isArray(vsix.Asset) =>
        LET ps == AssetPaths(vsix.Asset.v)
        IN  \A i, j \in 1..Len(ps) : i # j => ps[i] # ps[j]

\* An asset declaration the checks of merge are meant to reject
Malformed(asset) ==
    \/ DOMAIN asset.v # {"type", "path"}
    \/ asset.v["path"].v.abs

DeclaresMalformedAsset ==
    \E i \in 1..Len(files) : \E j \in 1..Len(files[i].entries) :
        LET e == files[i].entries[j]
        IN  /\ toLowerCase(e.key) = "assets"
            /\ isArray(e.value)
            /\ \E n \in 1..Len(e.value.v) : Malformed(e.value.v[n])

\* C5: when a partial's assets array holds a malformed declaration, writeVsix
\* never completes and no archive is written to the output path
C5_MalformedAssetAborts ==
    DeclaresMalformedAsset => (pc \notin {"resolved", "written"} /\ outFile = Undefined)

\* The last property, in discovery order, that declares assets as an array
AssetDeclarations ==
    UNION { { <<i, j>> : j \in { n \in 1..Len(files[i].entries) :
                                    /\ toLowerCase(files[i].entries[n].key) = "assets"
                                    /\ isArray(files[i].entries[n].value) } } :
            i \in 1..Len(files) }

LastAssetDeclaration ==
    CHOOSE w \in AssetDeclarations :
        \A u \in AssetDeclarations : u[1] < w[1] \/ (u[1] = w[1] /\ u[2] <= w[2])

HasEntry(z, name, data) == \E i \in 1..Len(z) : z[i].name = name /\ z[i].data = data

\* C10: after a successful writeVsix the archive holds every asset of the
\* effective assets list at its resolved path with the bytes of the file at
\* root/path, and the two manifests and the content types.  (Stated here for
\* the assets that are not of the reserved type Microsoft.VSO.Manifest, which
\* prepManifests removes from the list.)
C10_EveryAssetArchived ==
    (pc \in {"resolved", "written"} /\ AssetDeclarations # {}
        /\ files[LastAssetDeclaration[1]].entries[LastAssetDeclaration[2]].key = "assets") =>
        LET f == files[LastAssetDeclaration[1]]
            assets == f.entries[LastAssetDeclaration[2]].value.v
        IN  /\ \A n \in 1..Len(assets) :
                LET resolved == normalize(FALSE, f.dir \o assets[n].v["path"].v.segs)
                IN  toLowerCase(assets[n].v["type"].v) # "microsoft.vso.manifest" =>
                        HasEntry(zip, Path(FALSE, "/", resolved),
                                 Data("bytes", Root.segs \o resolved))
            /\ \E i \in 1..Len(zip) : zip[i].name = VSO_MANIFEST_FILENAME
                                        /\ zip[i].data.t = "vsomanifest"
            /\ \E i \in 1..Len(zip) : zip[i].name = VSIX_MANIFEST_FILENAME
                                        /\ zip[i].data.t = "vsixmanifest"
            /\ \E i \in 1..Len(zip) : zip[i].name = CONTENT_TYPES_FILENAME

\* The content type the fixed table gives an extension
ContentTypeOf(ext) ==
    IF ext \in DOMAIN CONTENT_TYPE_MAP THEN CONTENT_TYPE_MAP[ext]
    ELSE "application/octet-stream"

\* C6: the content-type index holds exactly one Default per distinct extension
\* of the archive's entries, the extension without its dot, with the content
\* type of the table or application/octet-stream
C6_ContentTypeIndex ==
    pc \in {"resolved", "written"} =>
        LET exts == { LastOf(zip[i].name.segs).ext :
                        i \in { n \in 1..Len(zip) : zip[n].name # CONTENT_TYPES_FILENAME } }
            idx == CHOOSE i \in 1..Len(zip) : zip[i].name = CONTENT_TYPES_FILENAME
            defaults == zip[idx].data.v
        IN  /\ Len(defaults) = Cardinality(exts)
            /\ { defaults[i] : i \in 1..Len(defaults) }
                 = { [Extension |-> e, ContentType |-> ContentTypeOf(e)] : e \in exts }

(***************************************************************************)
(* prepManifests on an arbitrary package manifest                          *)
(***************************************************************************)
PrepEntries ==
    { AssetEntry(JStr("img"), JStr("File"), JPath(Rel(<<Name("a", "png")>>))),
      AssetEntry(JStr("doc"), JStr("File"), JPath(Rel(<<Name("img", ""), Name("b", "json")>>))),
      AssetEntry(JStr("MICROSOFT.VSO.MANIFEST"), JStr("File"),
                 JPath(Rel(<<Name("old", "vsomanifest")>>))),
      AssetEntry(JStr("img"), JStr("File"), JPath(VSO_MANIFEST_FILENAME)),
      ManifestAsset }

\* The Asset node of the manifest handed to new VsixWriter: absent, or a list
AssetShapes == {Undefined} \cup { JArr(a) : a \in SeqsUpTo(PrepEntries, MaxAssets) }

InitPrep ==
    /\ vsix \in { [DefaultVsixManifest EXCEPT !.Asset = a] : a \in AssetShapes }
    /\ given = vsix
    /\ pc = "prepped"
    /\ prepCount = 0
    /\ files = <<>> /\ reads = <<>> /\ manifests = "split"
    /\ vso = InitialVsoManifest
    /\ zip = <<>> /\ outFile = Undefined /\ pathSep = "/"
    /\ resp = Undefined /\ outcome = NotThrown
    /\ partials = <<>> /\ tmpDir = "none" /\ published = NotPublished
    /\ publisher = Undefined /\ log = <<>>

NextPrep == PrepManifests

SpecPrep == InitPrep /\ [][NextPrep]_vars

\* C7: after one or more prepManifests calls the Asset list holds exactly one
\* entry of type Microsoft.VSO.Manifest, with Path extension.vsomanifest, and
\* the other entries are those of the manifest as it was given
C7_OneManifestAsset ==
    prepCount >= 1 =>
        /\ isArray(vsix.Asset)
        /\ SelectSeq(vsix.Asset.v, isVsoManifestAsset) = <<ManifestAsset>>
        /\ SelectSeq(vsix.Asset.v, keepAsset)
             = (IF isArray(given.Asset) THEN SelectSeq(given.Asset.v, keepAsset) ELSE <<>>)

(***************************************************************************)
(* The error translator                                                    *)
(***************************************************************************)
\* C8: for a response object, a statusCode of 401 yields the credential-expiry
\* message; otherwise a message in the body (an object or a string holding
\* JSON) is the outcome; otherwise the body is (as given, or as parsed)
C8_ThreeOutcomes ==
    (outcome # NotThrown /\ resp.t = "obj") =>
        LET body == Get(resp, "body")
            parsed == IF body.t = "str" /\ JSONparse(body.v) # SyntaxError
                      THEN JSONparse(body.v) ELSE body
        IN  IF Get(resp, "statusCode") = JNum(401) THEN outcome = ExpiredMessage
            ELSE IF Truthy(Get(parsed, "message")) THEN outcome = Get(parsed, "message")
            ELSE outcome \in {body, parsed}

(***************************************************************************)
(* The whole flow: publishVsix with package settings                       *)
(***************************************************************************)
\* Partial manifests whose merge depends on their order, that declare the
\* reserved names themselves, and that lie below the root
FlowFiles ==
    { One("name", JStr("a")), One("name", JStr("b")),
      One("contributions", X(JArr(<<JNum(1)>>))),
      One("contributions", X(JArr(<<JNum(2)>>))),
      One("contributions", JObj([k \in {"__meta_x"} |-> JArr(<<JNum(1)>>)])),
      One("__meta_root", JStr("elsewhere")), One("__meta_x", JStr("a")),
      One("__origin", JStr("elsewhere")),
      File(SubDir, <<Entry("assets", JArr(<<AssetA>>))>>),
      One("assets", JArr(<<AssetMissing>>)),
      File(<<>>, <<>>), BadFile }

InitFlow == InitWith(FlowFiles)
SpecPublishVsix == InitFlow /\ [][NextPublishVsix]_vars

\* Every value inside a JavaScript value, the value itself included
RECURSIVE ValuesIn(_)
ValuesIn(x) ==
    {x} \cup
    CASE x.t = "obj" -> UNION { ValuesIn(x.v[k]) : k \in DOMAIN x.v }
      [] x.t = "arr" -> UNION { ValuesIn(x.v[i]) : i \in 1..Len(x.v) }
      [] x.t = "asset" -> {x.v.Type, x.v.Source, x.v.Path}
      [] OTHER -> {}

\* The package root and the origin of every partial manifest
InternalPaths == {JPath(Root)} \cup { JPath(Origin(files[i])) : i \in 1..Len(files) }

\* The manifests of one kind that were serialized into the archive
Serialized(kind) ==
    { zip[i].data.v : i \in { j \in 1..Len(zip) : zip[j].data.t = kind } }

ManifestsWritten == pc \in {"staged", "resolved", "written", "writeFailed"}

Deep == <<Name("sub", ""), Name("deep", "")>>
AssetUp == Asset("img", Rel(<<DotDot, Name("a", "png")>>))

\* Partial manifests in the root, in root/sub and in root/sub/deep that
\* declare assets by relative paths
PathFiles ==
    { File(dir, <<Entry("assets", JArr(a))>>) :
        dir \in {<<>>, SubDir, Deep}, a \in SeqsUpTo({AssetA, AssetB, AssetUp}, MaxAssets) }
    \cup { File(SubDir, <<Entry("Assets", JArr(<<AssetA>>))>>),
           File(SubDir, <<Entry("name", JStr("a")), Entry("assets", JArr(<<AssetB>>))>>),
           One("assets", JArr(<<AssetMissing>>)),
           File(<<>>, <<>>), BadFile }

InitPaths == InitWith(PathFiles)
SpecPaths == InitPaths /\ [][NextPkg]_vars

\* dirname(O)/P relative to the root, written with forward slashes, for a
\* manifest in the directory dir below the root
ExpectedPath(dir, p) == JPath(Path(FALSE, "/", normalize(FALSE, dir \o p.segs)))

\* C12: after the merge, the Path of every entry of the Asset list is the
\* declared path of its asset, taken from the directory of the declaring
\* partial manifest and expressed relative to the root with forward slashes
C12_AssetPathsResolved ==
    (Merged /\ AssetDeclarations # {}) =>
        LET w == LastAssetDeclaration
            decl == files[w[1]].entries[w[2]].value.v
        IN  /\ Len(vsix.Asset.v) = Len(decl)
            /\ \A n \in 1..Len(decl) :
                  ~Malformed(decl[n]) =>
                      vsix.Asset.v[n].v.Path
                        = ExpectedPath(files[w[1]].dir, Get(decl[n], "path").v)

(***************************************************************************)
(* Concurrent reads                                                        *)
(***************************************************************************)
\* The accumulators after the partial manifests were applied one at a time
\* in discovery order
InDiscoveryOrder ==
    mergePartials(pathSep, MergeState(InitialVsoManifest, DefaultVsixManifest, NotThrown),
                  [i \in 1..Len(files) |-> Parsed(files[i]).v])

\* C13: in whatever order the reads complete, the parsed file of the i-th
\* discovered file is the i-th element of the array the merge loop receives,
\* the accumulators are not written before the loop runs, and after it they
\* are the result of applying the partial manifests in discovery order
C13_ReadOrderIrrelevant ==
    /\ \A i \in 1..Len(files) :
          partials[i] = (IF reads[i] = "fulfilled" THEN Parsed(files[i]) ELSE Undefined)
    /\ manifests = "pending" => (vso = InitialVsoManifest /\ vsix = DefaultVsixManifest)
    /\ Merged => (vso = InDiscoveryOrder.vso /\ vsix = InDiscoveryOrder.vsix)

C13_Witness ==
    /\ Merged
    /\ files = << One("contributions", X(JArr(<<JNum(2)>>))),
                  One("contributions", X(JArr(<<JNum(1)>>))) >>
    /\ Get(vso, "contributions") = X(JArr(<<JNum(2), JNum(1)>>))

(***************************************************************************)
(* The temporary directory                                                 *)
(***************************************************************************)
\* The steps that follow the acquisition of the directory
AfterTmpDir ==
    \/ WriteManifests
    \/ WriteManifestsFails
    \/ Generate
    \/ GenerateThrows
    \/ WriteFileDone
    \/ WriteFileFails
    \/ ProcessExit

\* Once the directory is acquired every step that can be taken is taken
\* eventually: callbacks that are ready run, and the process ends
SpecPublishVsixFair == SpecPublishVsix /\ WF_vars(AfterTmpDir)

\* C14: once writeVsix has obtained the temporary directory, the directory
\* is eventually removed, whether writeVsix succeeds or fails afterwards
C14_TmpDirReleased == (tmpDir = "acquired") ~> (tmpDir = "removed")

(***************************************************************************)
(* Publishing the packaged archive                                         *)
(***************************************************************************)
\* C15: when doPublish is called after auto-packaging, the archive has been
\* written to the output path and the path it is called with is that path
C15_PublishesWrittenArchive ==
    published # NotPublished =>
        /\ published.v.archive # Undefined
        /\ published.v.vsixPath = OutPath

(***************************************************************************)
(* createPublisher and deletePublisher                                     *)
(***************************************************************************)
PublisherNames == {"fabrikam", "contoso", "adatum", "litware", "tailspin"}
RequestErrors == {ExpiredMessage, JStr("publisher already exists"), JStr("ECONNRESET")}

\* The messages of the two commands, without the placeholder of the name
InfoMessage(op) ==
    IF op = "createPublisher" THEN "Creating publisher" ELSE "Deleting publisher"
SuccessMessage(op) ==
    IF op = "createPublisher" THEN "Successfully created publisher"
    ELSE "Successfully deleted publisher"

Logged(level, msg, arg) == [level |-> level, msg |-> msg, arg |-> arg]

\* createPublisher(name, ...) or deletePublisher(publisherName, ...) is called
InitPublisher ==
    /\ publisher \in [op : {"createPublisher", "deletePublisher"}, name : PublisherNames,
                       pc : {"called"}, request : {"none"}]
    /\ log = <<>>
    /\ resp = Undefined /\ outcome = NotThrown
    /\ files = <<>> /\ reads = <<>> /\ manifests = "idle"
    /\ vso = Undefined /\ vsix = Undefined
    /\ pc = "idle" /\ prepCount = 0 /\ zip = <<>> /\ outFile = Undefined /\ pathSep = "/"
    /\ given = Undefined /\ partials = <<>> /\ tmpDir = "none" /\ published = NotPublished

\* app.ts lines 85 and 95: log.info
LogInfo ==
    /\ publisher.pc = "called"
    /\ log' = Append(log, Logged("info", InfoMessage(publisher.op), JStr(publisher.name)))
    /\ publisher' = [publisher EXCEPT !.pc = "settings"]
    /\ UNCHANGED <<errVars, pkgVars>>

\* lines 86-88 and 96-98: resolveSettings is fulfilled, the PublisherManager
\* is made and its request is sent
SettingsResolved ==
    /\ publisher.pc = "settings"
    /\ publisher' = [publisher EXCEPT !.pc = "request", !.request = "pending"]
    /\ UNCHANGED <<errVars, pkgVars, log>>

\* lines 86, 91 and 96, 101: resolveSettings is rejected; the callbacks of
\* both then are skipped and errHandler.errLog gets the error
SettingsRejected ==
    /\ publisher.pc = "settings"
    /\ \E e \in RequestErrors : log' = Append(log, Logged("errLog", "", e))
    /\ publisher' = [publisher EXCEPT !.pc = "failed"]
    /\ UNCHANGED <<errVars, pkgVars>>

\* lines 88 and 98: the request of the PublisherManager succeeds
RequestSucceeds ==
    /\ publisher.pc = "request"
    /\ publisher' = [publisher EXCEPT !.pc = "then", !.request = "fulfilled"]
    /\ UNCHANGED <<errVars, pkgVars, log>>

\* lines 88 and 98: the request fails; .catch(console.error.bind(console))
\* prints the error and the promise it returns is fulfilled with undefined
RequestFails ==
    /\ publisher.pc = "request"
    /\ \E e \in RequestErrors : log' = Append(log, Logged("console.error", "", e))
    /\ publisher' = [publisher EXCEPT !.pc = "then", !.request = "rejected"]
    /\ UNCHANGED <<errVars, pkgVars>>

\* lines 89-91 and 99-101: the callback of the second then
LogSuccess ==
    /\ publisher.pc = "then"
    /\ log' = Append(log, Logged("success", SuccessMessage(publisher.op), JStr(publisher.name)))
    /\ publisher' = [publisher EXCEPT !.pc = "done"]
    /\ UNCHANGED <<errVars, pkgVars>>

NextPublisher ==
    \/ LogInfo
    \/ SettingsResolved
    \/ SettingsRejected
    \/ RequestSucceeds
    \/ RequestFails
    \/ LogSuccess

SpecPublisher == InitPublisher /\ [][NextPublisher]_vars

\* C16: a success message is in the log only if the request of the
\* PublisherManager succeeded
C16_SuccessOnlyAfterSuccess ==
    (\E i \in 1..Len(log) : log[i].level = "success") => publisher.request = "fulfilled"

====
